---- MODULE Spec2Model ----
(***************************************************************************)
(* ChimpStackr: focus stacking by Laplacian pyramid fusion.                *)
(*                                                                         *)
(* Two state machines are modelled.                                        *)
(*                                                                         *)
(*  Spec      the orchestrator (algorithms/API.py, class LaplacianPyramid) *)
(*            and the archive folding of Algorithm.focus_fuse_pyramids.    *)
(*            Images and pyramids are symbolic terms: every opaque numeric *)
(*            operation (load, registration, pyramid construction, pair    *)
(*            fusion, reconstruction) builds a term naming its arguments,  *)
(*            so the data flow of a run can be read off the state.         *)
(*                                                                         *)
(*  SpecFuse  Algorithm.focus_fuse_pyramid_pair with the numba kernels     *)
(*            pad_array, get_std_deviation, compute_focusmap and           *)
(*            fuse_pyramid_levels_using_focusmap on small concrete pixel   *)
(*            arrays.                                                      *)
(***************************************************************************)
EXTENDS Integers, Sequences, FiniteSets, TLC

VARIABLES
    \* ---- LaplacianPyramid object (API.py:12-22)
    image_paths,            \* self.image_paths
    output_image,           \* self.output_image
    pyramid_num_levels,     \* self.pyramid_num_levels
    useGpu,                 \* self.Algorithm.useGpu
    \* ---- the running call and its locals
    mode,                   \* which entry point is running
    pc,                     \* position inside it
    i,                      \* loop index of "for i, path in enumerate(...)"
    aligned_images,         \* local list of align_and_stack_images
    im0, im1,               \* locals of stack_images
    fused_pyr, new_pyr,     \* locals of both API runs
    image_archive_names,    \* argument of focus_fuse_pyramids
    output_pyramid,         \* local of focus_fuse_pyramids
    new_laplacian_pyramid,  \* local of focus_fuse_pyramids
    ret,                    \* value returned by the last finished call
    \* ---- what the outside sees
    trace,                  \* calls made on the Algorithm object, in order
    signals,                \* events given to signals.finished_inter_task.emit
    stdout,                 \* lines written by print
    \* ---- focus_fuse_pyramid_pair on concrete arrays (SpecFuse)
    pyr1, pyr2,             \* the two argument pyramids (lists of levels)
    kernel_size,            \* argument kernel_size
    pyramid_level,          \* loop index
    current_focusmap,       \* local current_focusmap
    new_pyr_levels,         \* local new_pyr (the List() being filled)
    fpc,                    \* position inside focus_fuse_pyramid_pair
    same_object,            \* whether pyr1 and pyr2 are one and the same list
    pyr1_before,            \* the levels of pyr1 when the call was made
    ops                     \* focus-map operations performed, in order

runVars == <<image_paths, output_image, pyramid_num_levels, useGpu, mode, pc, i,
             aligned_images, im0, im1, fused_pyr, new_pyr, image_archive_names,
             output_pyramid, new_laplacian_pyramid, ret, trace, signals, stdout>>
fuseVars == <<pyr1, pyr2, kernel_size, pyramid_level, current_focusmap,
              new_pyr_levels, fpc, same_object, pyr1_before, ops>>
vars == <<runVars, fuseVars>>

----------------------------------------------------------------------------
(* Bounds of the model.                                                    *)

\* most paths handed to update_image_paths / archive names handed to the fuser
MaxImages == 3
\* deepest pyramid handed to focus_fuse_pyramid_pair in SpecFuse
MaxLevels == 3
\* largest kernel_size handed to focus_fuse_pyramid_pair in SpecFuse
MaxKernel == 3

----------------------------------------------------------------------------
(* Values.  Every value is a tagged tuple so that any two can be compared. *)

None == <<"None">>
Unbound == <<"unbound">>
Raise == <<"raise">>
Str(p) == <<"str", p>>
Img(p) == <<"img", p>>
Reg(ref, im) == <<"reg", ref, im>>
Pyr(n, im) == <<"pyr", n, im>>
Stored(n, name) == <<"stored", n, name>>
Fused(n, a, b) == <<"fused", n, a, b>>
Recon(p) == <<"image", p>>

\* None as the value of a variable that otherwise holds a 2-D array
NoneMap == [h |-> -1, w |-> -1, m |-> <<>>]

IsStr(v) == v[1] = "str"
Levels(p) == p[2]

\* API.py:12, the default pyramid depth
DefaultPyramidNumLevels == 8


----------------------------------------------------------------------------
(* ImageLoadingHandler.py                                                  *)

supported_rawpy_formats ==
    {"RWZ", "RW2", "CR2", "DNG", "ERF", "NRW", "RAF", "ARW", "NEF", "K25",
     "SRF", "EIP", "DCR", "RAW", "CRW", "3FR", "BAY", "MEF", "CS1", "KDC",
     "ORF", "ARI", "SR2", "MOS", "MFW", "CR3", "FFF", "SRW", "J6I", "X3F",
     "KC2", "RWL", "MRW", "PEF", "IIQ", "CXI", "MDC"}

supported_opencv_formats ==
    {"bmp", "dib", "jpeg", "jpg", "jpe", "jp2", "png", "webp", "pbm", "pgm",
     "ppm", "pxm", "pnm", "pfm", "sr", "ras", "tiff", "tif", "exr", "hdr",
     "pic"}

\* The modelled disk: six files, the extension of each path
\* (os.path.splitext without the dot) and whether the decoder can read the
\* file behind it.
Paths == 1..6

PathExt(p) ==
    CASE p = 1 -> "jpg"
      [] p = 2 -> "JPG"
      [] p = 3 -> "cr2"
      [] p = 4 -> "jpg"
      [] p = 5 -> "CR2"
      [] p = 6 -> "txt"
      [] OTHER -> "png"

Decodes(p) == p \notin {4, 5}

\* str.lower / str.upper on the extensions of the modelled disk
StrLower(e) ==
    CASE e = "JPG" -> "jpg"
      [] e = "CR2" -> "cr2"
      [] OTHER -> e

StrUpper(e) ==
    CASE e = "jpg" -> "JPG"
      [] e = "cr2" -> "CR2"
      [] e = "txt" -> "TXT"
      [] e = "png" -> "PNG"
      [] OTHER -> e

\* cv2.imread gives None for a file it cannot decode; rawpy.imread raises.
\* A path in neither list falls off the end of the function: None.
read_image_from_path(path) ==
    IF StrLower(PathExt(path)) \in supported_opencv_formats
    THEN (IF Decodes(path) THEN Img(path) ELSE None)
    ELSE IF StrUpper(PathExt(path)) \in supported_rawpy_formats
         THEN (IF Decodes(path) THEN Img(path) ELSE Raise)
         ELSE None

----------------------------------------------------------------------------
(* Collaborators whose code is not part of the source tree.                *)

\* dft_imreg.im_reg.register_image_translation: the target shifted onto the
\* reference; it needs two pixel arrays.
register_image_translation(ref_im, im_to_align) ==
    IF ref_im = None \/ im_to_align = None
    THEN Raise
    ELSE Reg(ref_im, im_to_align)

\* pyramid.laplacian_pyramid: needs a pixel array.
laplacian_pyramid(im, num_levels) ==
    IF im = None THEN Raise ELSE Pyr(num_levels, im)

\* Algorithm.reconstruct_pyramid
reconstruct_pyramid(p) == Recon(p)

\* ImageStorageHandler.load_laplacian_pyramid
load_laplacian_pyramid(archive_name, num_levels) == Stored(num_levels, archive_name)

\* utilities.int_string_sorting: the numeric key of a path name
int_string_sorting(p) == p

----------------------------------------------------------------------------
(* algorithms/__init__.py, class Algorithm, on symbolic values.            *)

\* [val: the value returned or Raise, reg: whether registration ran,
\*  loads: the paths read from disk, in order]
align_image_pair(ref_im, im_to_align) ==
    IF IsStr(ref_im) /\ IsStr(im_to_align)
    THEN [val |-> read_image_from_path(im_to_align[2]), reg |-> FALSE,
          loads |-> <<im_to_align[2]>>]
    ELSE LET r == IF IsStr(ref_im) THEN read_image_from_path(ref_im[2]) ELSE ref_im
             l1 == IF IsStr(ref_im) THEN <<ref_im[2]>> ELSE <<>>
         IN  IF r = Raise
             THEN [val |-> Raise, reg |-> FALSE, loads |-> l1]
             ELSE LET t == IF IsStr(im_to_align)
                           THEN read_image_from_path(im_to_align[2])
                           ELSE im_to_align
                      l2 == IF IsStr(im_to_align) THEN l1 \o <<im_to_align[2]>> ELSE l1
                  IN  IF t = Raise
                      THEN [val |-> Raise, reg |-> FALSE, loads |-> l2]
                      ELSE [val |-> register_image_translation(r, t), reg |-> TRUE,
                            loads |-> l2]

generate_laplacian_pyramid(im, num_levels) ==
    LET a == IF IsStr(im) THEN read_image_from_path(im[2]) ELSE im
    IN  IF a = Raise THEN Raise ELSE laplacian_pyramid(a, num_levels)

\* focus_fuse_pyramid_pair seen from its caller: the loop runs over
\* range(len(pyr2)); with a single level the first iteration already takes
\* the resize branch with current_focusmap = None, which cv2.resize rejects.
focus_fuse_pyramid_pair(p1, p2) ==
    IF Levels(p2) = 1 THEN Raise ELSE Fused(Levels(p2), p1, p2)


----------------------------------------------------------------------------
(* Bookkeeping of a call.                                                  *)

\* One call made on the Algorithm object: op is the method, idx the 0-based
\* position of the image it works on, a and b its arguments, res what it
\* returned (Raise when it threw), reg/loads as in align_image_pair.
Entry(op, idx, a, b, res, reg, loads) ==
    [op |-> op, idx |-> idx, a |-> a, b |-> b, res |-> res, reg |-> reg,
     loads |-> loads]

Event(stage, index, total) ==
    [stage |-> stage, index |-> index, total |-> total, elapsed |-> "seconds"]

Quiescent == pc \in {"idle", "done", "failed"}

\* sorted(new_image_paths, key=utilities.int_string_sorting): insertion of
\* each element after the last one whose key is not larger (stable).
RECURSIVE SortedInsert(_, _)
SortedInsert(s, x) ==
    IF s = <<>> THEN <<x>>
    ELSE IF int_string_sorting(x) < int_string_sorting(Head(s))
         THEN <<x>> \o s
         ELSE <<Head(s)>> \o SortedInsert(Tail(s), x)

RECURSIVE Sorted(_)
Sorted(s) ==
    IF s = <<>> THEN <<>>
    ELSE SortedInsert(Sorted(SubSeq(s, 1, Len(s) - 1)), s[Len(s)])

\* the lists handed to update_image_paths: every set of at most MaxImages
\* paths, given in descending order of name
RECURSIVE Descending(_)
Descending(S) ==
    IF S = {} THEN <<>>
    ELSE LET m == CHOOSE x \in S : \A y \in S : y <= x
         IN  <<m>> \o Descending(S \ {m})

PathLists == {Descending(S) : S \in {T \in SUBSET Paths : Cardinality(T) <= MaxImages}}

\* the state every call starts from: no locals bound, nothing emitted
ClearLocals ==
    /\ i' = 0
    /\ aligned_images' = <<>>
    /\ im0' = Unbound
    /\ im1' = Unbound
    /\ fused_pyr' = Unbound
    /\ new_pyr' = Unbound
    /\ output_pyramid' = Unbound
    /\ new_laplacian_pyramid' = Unbound
    /\ signals' = <<>>
    /\ stdout' = <<>>

\* an exception leaves the call: nothing is returned and the object's fields
\* stay as they are
Fail(entries) ==
    /\ pc' = "failed"
    /\ ret' = Raise
    /\ trace' = trace \o entries
    /\ UNCHANGED <<image_paths, output_image, pyramid_num_levels, useGpu, mode, i,
                   aligned_images, im0, im1, fused_pyr, new_pyr,
                   image_archive_names, output_pyramid, new_laplacian_pyramid,
                   signals, stdout>>

----------------------------------------------------------------------------
(* LaplacianPyramid, API.py                                                *)

Init ==
    /\ image_paths = <<>>
    /\ output_image = None
    /\ pyramid_num_levels \in {1, DefaultPyramidNumLevels}
    /\ useGpu = FALSE
    /\ mode = "none"
    /\ pc = "idle"
    /\ i = 0
    /\ aligned_images = <<>>
    /\ im0 = Unbound
    /\ im1 = Unbound
    /\ fused_pyr = Unbound
    /\ new_pyr = Unbound
    /\ image_archive_names = <<>>
    /\ output_pyramid = Unbound
    /\ new_laplacian_pyramid = Unbound
    /\ ret = None
    /\ trace = <<>>
    /\ signals = <<>>
    /\ stdout = <<>>
    /\ pyr1 = <<>>
    /\ pyr2 = <<>>
    /\ kernel_size = 0
    /\ pyramid_level = 0
    /\ current_focusmap = NoneMap
    /\ new_pyr_levels = <<>>
    /\ fpc = "off"
    /\ same_object = FALSE
    /\ pyr1_before = <<>>
    /\ ops = <<>>

update_image_paths ==
    /\ Quiescent
    /\ \E new_image_paths \in PathLists :
          image_paths' = Sorted(new_image_paths)
    /\ pc' = "idle"
    /\ mode' = "none"
    /\ ret' = None
    /\ trace' = <<>>
    /\ ClearLocals
    /\ UNCHANGED <<output_image, pyramid_num_levels, useGpu, image_archive_names,
                   fuseVars>>

\* Algorithm.align_image_pair called directly, with paths or loaded arrays
AlignArgs == {Str(p) : p \in Paths} \cup {Img(p) : p \in {q \in Paths : Decodes(q)}}

CallAlignImagePair ==
    /\ Quiescent
    /\ \E ref_im \in AlignArgs, im_to_align \in AlignArgs :
          LET r == align_image_pair(ref_im, im_to_align)
          IN  /\ ClearLocals
              /\ trace' = <<Entry("align", 0, ref_im, im_to_align, r.val, r.reg, r.loads)>>
              /\ ret' = r.val
    /\ pc' = "idle"
    /\ mode' = "none"
    /\ UNCHANGED <<image_paths, output_image, pyramid_num_levels, useGpu,
                   image_archive_names, fuseVars>>

\* entry of align_and_stack_images / stack_images: toggle_cpu_gpu() selects
\* the CPU (use_gpu=False)
StartRun ==
    /\ Quiescent
    /\ mode' \in {"align", "stack"}
    /\ pc' = "seed_align"
    /\ useGpu' = FALSE
    /\ ret' = None
    /\ trace' = <<>>
    /\ ClearLocals
    /\ UNCHANGED <<image_paths, output_image, pyramid_num_levels,
                   image_archive_names, fuseVars>>


\* frame of a step inside a run
StepFrame ==
    UNCHANGED <<image_paths, pyramid_num_levels, useGpu, mode,
                image_archive_names, output_pyramid, new_laplacian_pyramid,
                fuseVars>>

\* API.py:42-44 / 84: the first image is "aligned" against itself
SeedAlign ==
    /\ pc = "seed_align"
    /\ IF Len(image_paths) = 0
       THEN Fail(<<>>)                     \* image_paths[0]: IndexError
       ELSE LET p0 == Str(image_paths[1])
                r == align_image_pair(p0, p0)
                e == Entry("align", 0, p0, p0, r.val, r.reg, r.loads)
            IN  IF r.val = Raise
                THEN Fail(<<e>>)
                ELSE /\ trace' = Append(trace, e)
                     /\ IF mode = "align"
                        THEN aligned_images' = <<r.val>> /\ im0' = im0
                        ELSE im0' = r.val /\ aligned_images' = aligned_images
                     /\ pc' = "seed_build"
                     /\ UNCHANGED <<output_image, i, im1, fused_pyr, new_pyr, ret,
                                    signals, stdout>>
                     /\ StepFrame
    /\ UNCHANGED fuseVars

\* API.py:45-47 / 85-88
SeedBuild ==
    /\ pc = "seed_build"
    /\ LET im == IF mode = "align" THEN aligned_images[1] ELSE im0
           p == generate_laplacian_pyramid(im, pyramid_num_levels)
           e == Entry("build", 0, im, None, p, FALSE, <<>>)
       IN  IF p = Raise
           THEN Fail(<<e>>)
           ELSE /\ trace' = Append(trace, e)
                /\ fused_pyr' = p
                /\ pc' = "loop"
                /\ i' = 0
                /\ UNCHANGED <<output_image, aligned_images, im0, im1, new_pyr, ret,
                               signals, stdout>>
                /\ StepFrame
    /\ UNCHANGED fuseVars

\* LoopHead leaving the loop one image early
LoopHead_ExitsEarly ==
    /\ pc = "loop"
    /\ IF i >= Len(image_paths) - 1 /\ i >= 1
       THEN pc' = "reconstruct" /\ i' = i /\ stdout' = stdout
       ELSE IF i = 0
            THEN pc' = "loop" /\ i' = 1 /\ stdout' = stdout
            ELSE /\ pc' = "align"
                 /\ i' = i
                 /\ stdout' = IF mode = "align"
                              THEN Append(stdout, <<"Processing image", i + 1,
                                                    Len(image_paths)>>)
                              ELSE stdout
    /\ UNCHANGED <<output_image, aligned_images, im0, im1, fused_pyr, new_pyr, ret,
                   trace, signals>>
    /\ StepFrame

\* API.py:49-53 / 90-94: the head of "for i, path in enumerate(image_paths)"
LoopHead ==
    /\ pc = "loop"
    /\ IF i >= Len(image_paths)
       THEN pc' = "reconstruct" /\ i' = i /\ stdout' = stdout
       ELSE IF i = 0
            THEN pc' = "loop" /\ i' = 1 /\ stdout' = stdout       \* continue
            ELSE /\ pc' = "align"
                 /\ i' = i
                 /\ stdout' = IF mode = "align"
                              THEN Append(stdout, <<"Processing image", i + 1,
                                                    Len(image_paths)>>)
                              ELSE stdout
    /\ UNCHANGED <<output_image, aligned_images, im0, im1, fused_pyr, new_pyr, ret,
                   trace, signals>>
    /\ StepFrame

\* AlignStep going on to the next image when the call throws
AlignStep_SkipsFailedImage ==
    /\ pc = "align"
    /\ LET path == Str(image_paths[i + 1])
           ref == IF mode = "align" THEN aligned_images[1] ELSE path
           r == align_image_pair(ref, path)
           e == Entry("align", i, ref, path, r.val, r.reg, r.loads)
       IN  /\ trace' = Append(trace, e)
           /\ IF r.val = Raise
              THEN /\ pc' = "loop"
                   /\ i' = i + 1
                   /\ UNCHANGED <<aligned_images, im1>>
              ELSE /\ IF mode = "align"
                      THEN aligned_images' = Append(aligned_images, r.val) /\ im1' = im1
                      ELSE im1' = r.val /\ aligned_images' = aligned_images
                   /\ pc' = "build"
                   /\ i' = i
           /\ UNCHANGED <<output_image, im0, fused_pyr, new_pyr, ret, signals, stdout>>
           /\ StepFrame

\* API.py:55-57 / 97
AlignStep ==
    /\ pc = "align"
    /\ LET path == Str(image_paths[i + 1])
           ref == IF mode = "align" THEN aligned_images[1] ELSE path
           r == align_image_pair(ref, path)
           e == Entry("align", i, ref, path, r.val, r.reg, r.loads)
       IN  IF r.val = Raise
           THEN Fail(<<e>>)
           ELSE /\ trace' = Append(trace, e)
                /\ IF mode = "align"
                   THEN aligned_images' = Append(aligned_images, r.val) /\ im1' = im1
                   ELSE im1' = r.val /\ aligned_images' = aligned_images
                /\ pc' = "build"
                /\ UNCHANGED <<output_image, i, im0, fused_pyr, new_pyr, ret, signals,
                               stdout>>
                /\ StepFrame
    /\ UNCHANGED fuseVars

\* API.py:58-60 / 99-101
BuildStep ==
    /\ pc = "build"
    /\ LET im == IF mode = "align" THEN aligned_images[2] ELSE im1
           p == generate_laplacian_pyramid(im, pyramid_num_levels)
           e == Entry("build", i, im, None, p, FALSE, <<>>)
       IN  IF p = Raise
           THEN Fail(<<e>>)
           ELSE /\ trace' = Append(trace, e)
                /\ new_pyr' = p
                /\ pc' = "del"
                /\ UNCHANGED <<output_image, i, aligned_images, im0, im1, fused_pyr,
                               ret, signals, stdout>>
                /\ StepFrame
    /\ UNCHANGED fuseVars

\* DelStep dropping the newly aligned image and keeping the first one
DelStep_KeepsFirst ==
    /\ pc = "del"
    /\ IF mode = "align"
       THEN aligned_images' = <<aligned_images[1]>> /\ im1' = im1
       ELSE im1' = Unbound /\ aligned_images' = aligned_images
    /\ pc' = "fuse"
    /\ UNCHANGED <<output_image, i, im0, fused_pyr, new_pyr, ret, trace, signals,
                   stdout>>
    /\ StepFrame

\* API.py:61 "del aligned_images[0]" / 103 "del im1"
DelStep ==
    /\ pc = "del"
    /\ IF mode = "align"
       THEN aligned_images' = Tail(aligned_images) /\ im1' = im1
       ELSE im1' = Unbound /\ aligned_images' = aligned_images
    /\ pc' = "fuse"
    /\ UNCHANGED <<output_image, i, im0, fused_pyr, new_pyr, ret, trace, signals,
                   stdout>>
    /\ StepFrame

\* FuseStep with the two pyramids handed over in the other order
FuseStep_Swapped ==
    /\ pc = "fuse"
    /\ LET f == focus_fuse_pyramid_pair(new_pyr, fused_pyr)
           e == Entry("fuse", i, new_pyr, fused_pyr, f, FALSE, <<>>)
       IN  IF f = Raise
           THEN Fail(<<e>>)
           ELSE /\ trace' = Append(trace, e)
                /\ fused_pyr' = f
                /\ IF mode = "align"
                   THEN pc' = "loop" /\ i' = i + 1
                   ELSE pc' = "emit" /\ i' = i
                /\ UNCHANGED <<output_image, aligned_images, im0, im1, new_pyr, ret,
                               signals, stdout>>
                /\ StepFrame
    /\ UNCHANGED fuseVars

\* API.py:63-65 / 105-107
FuseStep ==
    /\ pc = "fuse"
    /\ LET f == focus_fuse_pyramid_pair(fused_pyr, new_pyr)
           e == Entry("fuse", i, fused_pyr, new_pyr, f, FALSE, <<>>)
       IN  IF f = Raise
           THEN Fail(<<e>>)
           ELSE /\ trace' = Append(trace, e)
                /\ fused_pyr' = f
                /\ IF mode = "align"
                   THEN pc' = "loop" /\ i' = i + 1
                   ELSE pc' = "emit" /\ i' = i
                /\ UNCHANGED <<output_image, aligned_images, im0, im1, new_pyr, ret,
                               signals, stdout>>
                /\ StepFrame
    /\ UNCHANGED fuseVars

\* EmitStep reporting the loop index instead of the image number
EmitStep_ZeroBasedIndex ==
    /\ pc = "emit"
    /\ signals' = Append(signals, Event("finished_image", i, Len(image_paths)))
    /\ pc' = "loop"
    /\ i' = i + 1
    /\ UNCHANGED <<output_image, aligned_images, im0, im1, fused_pyr, new_pyr, ret,
                   trace, stdout>>
    /\ StepFrame

\* API.py:110-117: stack_images reports the image it has just fused
EmitStep ==
    /\ pc = "emit"
    /\ signals' = Append(signals, Event("finished_image", i + 1, Len(image_paths)))
    /\ pc' = "loop"
    /\ i' = i + 1
    /\ UNCHANGED <<output_image, aligned_images, im0, im1, fused_pyr, new_pyr, ret,
                   trace, stdout>>
    /\ StepFrame

\* API.py:67-76 / 119-121: with useGpu the levels are copied to the host
\* first; then the pyramid is reconstructed and stored.  Only
\* align_and_stack_images returns the image.
ReconstructStep ==
    /\ pc = "reconstruct"
    /\ LET host == fused_pyr
           fused_image == reconstruct_pyramid(host)
       IN  /\ trace' = Append(trace, Entry("reconstruct", Len(image_paths) - 1, host,
                                           None, fused_image, FALSE, <<>>))
           /\ output_image' = fused_image
           /\ ret' = IF mode = "align" THEN fused_image ELSE None
    /\ pc' = "done"
    /\ UNCHANGED <<i, aligned_images, im0, im1, fused_pyr, new_pyr, signals, stdout>>
    /\ StepFrame


----------------------------------------------------------------------------
(* Algorithm.focus_fuse_pyramids, algorithms/__init__.py:161-224           *)

EmptyList == <<"list", 0>>

\* archive names handed to the fuser: 1, 2, ..., n
ArchiveLists == {[k \in 1..n |-> k] : n \in 0..MaxImages}

FuserFrame ==
    UNCHANGED <<image_paths, output_image, pyramid_num_levels, useGpu, mode,
                aligned_images, im0, im1, fused_pyr, new_pyr, image_archive_names,
                stdout, fuseVars>>

\* __init__.py:161-162
FuserStart ==
    /\ Quiescent
    /\ image_archive_names' \in ArchiveLists
    /\ mode' = "archive"
    /\ pc' = "a_loop"
    /\ ret' = None
    /\ trace' = <<>>
    /\ i' = 0
    /\ aligned_images' = <<>>
    /\ im0' = Unbound
    /\ im1' = Unbound
    /\ fused_pyr' = Unbound
    /\ new_pyr' = Unbound
    /\ output_pyramid' = EmptyList
    /\ new_laplacian_pyramid' = Unbound
    /\ signals' = <<>>
    /\ stdout' = <<>>
    /\ UNCHANGED <<image_paths, output_image, pyramid_num_levels, useGpu, fuseVars>>

\* __init__.py:163-164 and 224
FuserLoopHead ==
    /\ pc = "a_loop"
    /\ IF i >= Len(image_archive_names)
       THEN pc' = "done" /\ ret' = output_pyramid
       ELSE pc' = "a_load" /\ ret' = ret
    /\ UNCHANGED <<i, output_pyramid, new_laplacian_pyramid, trace, signals>>
    /\ FuserFrame

\* __init__.py:166-176
FuserLoad ==
    /\ pc = "a_load"
    /\ LET p == load_laplacian_pyramid(image_archive_names[i + 1], pyramid_num_levels)
       IN  /\ trace' = Append(trace, Entry("load_pyramid", i, image_archive_names[i + 1],
                                           None, p, FALSE, <<>>))
           /\ IF i = 0
              THEN /\ output_pyramid' = p
                   /\ new_laplacian_pyramid' = new_laplacian_pyramid
                   /\ pc' = "a_emit"
              ELSE /\ new_laplacian_pyramid' = p
                   /\ output_pyramid' = output_pyramid
                   /\ pc' = "a_fuse"
    /\ UNCHANGED <<i, ret, signals>>
    /\ FuserFrame

\* __init__.py:178-212: the level loop of focus_fuse_pyramid_pair, inlined
FuserFuse ==
    /\ pc = "a_fuse"
    /\ LET f == focus_fuse_pyramid_pair(output_pyramid, new_laplacian_pyramid)
           e == Entry("fuse", i, output_pyramid, new_laplacian_pyramid, f, FALSE, <<>>)
       IN  IF f = Raise
           THEN Fail(<<e>>)
           ELSE /\ trace' = Append(trace, e)
                /\ output_pyramid' = f
                /\ pc' = "a_emit"
                /\ UNCHANGED <<i, new_laplacian_pyramid, ret, signals>>
                /\ FuserFrame
    /\ UNCHANGED fuseVars

\* __init__.py:214-222
FuserEmit ==
    /\ pc = "a_emit"
    /\ signals' = Append(signals, Event("laplacian_pyramid_focus_fusion", i + 1,
                                        Len(image_archive_names)))
    /\ i' = i + 1
    /\ pc' = "a_loop"
    /\ UNCHANGED <<output_pyramid, new_laplacian_pyramid, ret, trace>>
    /\ FuserFrame

----------------------------------------------------------------------------

\* the steps of a call that is under way
RunStep ==
    \/ SeedAlign
    \/ SeedBuild
    \/ LoopHead
    \/ AlignStep
    \/ BuildStep
    \/ DelStep
    \/ FuseStep
    \/ EmitStep
    \/ ReconstructStep
    \/ FuserLoopHead
    \/ FuserLoad
    \/ FuserFuse
    \/ FuserEmit

Next ==
    \/ update_image_paths
    \/ StartRun
    \/ FuserStart
    \/ RunStep

Spec == Init /\ [][Next]_vars

\* Algorithm.align_image_pair used on its own
NextAlign == CallAlignImagePair

SpecAlign == Init /\ [][NextAlign]_vars

\* A call runs synchronously to its end: a step that can be taken is taken.
FairSpec == Spec /\ WF_vars(RunStep)


----------------------------------------------------------------------------
(* Reading a run off its trace.                                            *)

ApiRun == mode \in {"align", "stack"}

\* number of images of the call under way
NumImages == IF mode = "archive" THEN Len(image_archive_names) ELSE Len(image_paths)

TraceIdx == 1..Len(trace)

\* positions of the calls of method op that returned
Returned(op) == {j \in TraceIdx : trace[j].op = op /\ trace[j].res # Raise}

FuseEntries == SelectSeq(trace, LAMBDA e : e.op = "fuse" /\ e.res # Raise)

\* the pyramid made for the image at 1-based position k: what the call that
\* built it (or fetched it from the archive) returned
PyramidOfImage(k) ==
    LET j == CHOOSE h \in TraceIdx :
                 /\ trace[h].op \in {"build", "load_pyramid"}
                 /\ trace[h].idx = k - 1
    IN  trace[j].res

\* the running result of images 1..k under left-to-right pairwise folding
RECURSIVE RunningResult(_)
RunningResult(k) ==
    IF k = 1 THEN PyramidOfImage(1)
    ELSE <<"fused", Levels(PyramidOfImage(k)), RunningResult(k - 1), PyramidOfImage(k)>>

----------------------------------------------------------------------------
(* C1: in align_and_stack_images every later image is registered against   *)
(* the image loaded from image_paths[0].                                   *)

\* C1 as stated: the reference argument of every align_image_pair call of the
\* loop is the first image of the sorted list.
C1_ReferenceIsFirstImage ==
    mode = "align" =>
        \A j \in TraceIdx :
            (trace[j].op = "align" /\ trace[j].idx >= 1)
                => trace[j].a = Img(image_paths[1])

\* C1 amended: the reference argument of the call for the image at 0-based
\* position k >= 1 is what the call for position k - 1 returned; that is the
\* first image for k = 1 and the previously aligned image from then on.
C1_ReferenceIsPreviousAligned ==
    mode = "align" =>
        \A j \in TraceIdx :
            (trace[j].op = "align" /\ trace[j].idx >= 1)
                => /\ j > 1
                   /\ \E h \in 1..(j - 1) :
                         /\ trace[h].op = "align"
                         /\ trace[h].idx = trace[j].idx - 1
                         /\ trace[j].a = trace[h].res
                   /\ trace[j].b = Str(image_paths[trace[j].idx + 1])
                   /\ (trace[j].idx = 1 => trace[j].a = Img(image_paths[1]))
                   /\ (trace[j].idx >= 2 => trace[j].a[1] = "reg")

C1_Witness ==
    /\ mode = "align"
    /\ pc = "done"
    /\ \E j \in TraceIdx :
          trace[j].op = "align" /\ trace[j].idx = 2 /\ trace[j].res[1] = "reg"

----------------------------------------------------------------------------
(* C2: the pyramids are folded pairwise, left to right, in stored order.   *)

\* C2: the k-th pair fusion of a call takes the running result of images
\* 1..k as its first argument and the pyramid of image k+1 as its second, and
\* its result is the running result of 1..k+1; the pyramid of an image is
\* built from the image read from that position of the list; a finished call
\* over N >= 1 images has made N-1 fusions, has folded each image once and
\* ends with the reconstruction of the last running result.
C2_PairwiseLeftFold ==
    /\ \A k \in 1..Len(FuseEntries) :
          /\ FuseEntries[k].idx = k
          /\ FuseEntries[k].a = RunningResult(k)
          /\ FuseEntries[k].b = PyramidOfImage(k + 1)
          /\ FuseEntries[k].res = RunningResult(k + 1)
    /\ \A j \in Returned("build") :
          /\ j > 1
          /\ trace[j - 1].op = "align"
          /\ trace[j - 1].idx = trace[j].idx
          /\ trace[j - 1].b = Str(image_paths[trace[j].idx + 1])
          /\ trace[j].a = trace[j - 1].res
    /\ (pc = "done" /\ NumImages >= 1) =>
          /\ Len(FuseEntries) = NumImages - 1
          /\ \A k \in 1..NumImages :
                Cardinality({j \in Returned("build") \cup Returned("load_pyramid") :
                                trace[j].idx = k - 1}) = 1
          /\ (ApiRun => output_image = Recon(RunningResult(NumImages)))
          /\ (mode = "align" => ret = output_image)
          /\ (mode = "archive" => ret = RunningResult(NumImages))

C2_Witness ==
    /\ pc = "done"
    /\ ApiRun
    /\ NumImages = 3
    /\ Len(FuseEntries) = 2


----------------------------------------------------------------------------
(* C3: one progress event per processed image goes to the progress sink,   *)
(* and the orchestrator prints nothing.                                    *)

\* images whose processing is complete: the first once its pyramid exists,
\* a later one once it has been fused
Processed ==
    {k \in 1..NumImages :
        IF k = 1
        THEN \E j \in Returned("build") \cup Returned("load_pyramid") : trace[j].idx = 0
        ELSE \E j \in Returned("fuse") : trace[j].idx = k - 1}

\* C3 as stated: events carry the index values 1, 2, ... in order, the event
\* for image k comes only after image k was processed, a finished call over N
\* images has emitted N events, and nothing is ever printed.
C3_OneEventPerImage ==
    /\ \A k \in 1..Len(signals) :
          /\ signals[k].index = k
          /\ signals[k].total = NumImages
          /\ k \in Processed
    /\ pc = "done" => Len(signals) = NumImages
    /\ stdout = <<>>

\* C3 amended.  stack_images: one "finished_image" event for each of the
\* images 2..N, index k for image k, after image k was fused; N-1 events in
\* a finished call, none for the first image; nothing printed.
\* focus_fuse_pyramids: one "laplacian_pyramid_focus_fusion" event for each
\* of the images 1..N, after it was processed; N events in a finished call.
\* align_and_stack_images: no event at all; one line printed for each of the
\* images 2..N before that image is loaded.
C3_EventsPerEntryPoint ==
    /\ mode = "stack" =>
          /\ \A k \in 1..Len(signals) :
                /\ signals[k] = [stage |-> "finished_image", index |-> k + 1,
                                 total |-> NumImages, elapsed |-> "seconds"]
                /\ (k + 1) \in Processed
          /\ pc = "done" => Len(signals) = NumImages - 1
          /\ stdout = <<>>
    /\ mode = "archive" =>
          /\ \A k \in 1..Len(signals) :
                /\ signals[k] = [stage |-> "laplacian_pyramid_focus_fusion",
                                 index |-> k, total |-> NumImages,
                                 elapsed |-> "seconds"]
                /\ k \in Processed
          /\ pc = "done" => Len(signals) = NumImages
          /\ stdout = <<>>
    /\ mode = "align" =>
          /\ signals = <<>>
          /\ \A k \in 1..Len(stdout) :
                /\ stdout[k] = <<"Processing image", k + 1, NumImages>>
                /\ k \in Processed
                /\ (k + 1) \in Processed \/ pc # "done"
          /\ Len(stdout) <= Cardinality(Processed)
          /\ pc = "done" => Len(stdout) = NumImages - 1

C3_Witness ==
    /\ pc = "done"
    /\ mode = "stack"
    /\ NumImages = 3
    /\ Len(signals) = 2

----------------------------------------------------------------------------
(* C7: at most two pyramids are resident, and the pyramid of a folded      *)
(* image is released before the next image is loaded.                      *)

\* the pyramids a local variable of the run still refers to.  The list
\* returned by a pair fusion holds the level buffers of its first argument,
\* so the running result is one resident pyramid however often it was fused
\* into.
ResidentPyramids ==
    {v \in {<<"running", fused_pyr>>, <<"next", new_pyr>>} : v[2] # Unbound}

\* the load of the image at 0-based position i >= 1 is about to start
LoadStarts == ApiRun /\ pc = "align"

\* C7: never more than two resident pyramids, and when the load of the next
\* image starts only the running fused pyramid is resident.
C7_FoldedPyramidReleased ==
    /\ Cardinality(ResidentPyramids) <= 2
    /\ LoadStarts => \A v \in ResidentPyramids : v[1] = "running"


----------------------------------------------------------------------------
(* C8: Idle -> Registering(i) -> Pyramid-building(i) -> Fusing(i) -> ...   *)
(* -> Reconstructing -> Done.                                              *)

\* which call may directly follow which in an API run: the pyramid of an
\* image follows its registration, the first image's pyramid seeds the
\* running result, a later image's pyramid is fused at once, and only then
\* does the next image (or the reconstruction) begin
Follows(e, f) ==
    \/ e.op = "align" /\ f.op = "build" /\ f.idx = e.idx
    \/ e.op = "build" /\ e.idx = 0 /\ f.op = "align" /\ f.idx = 1
    \/ e.op = "build" /\ e.idx >= 1 /\ f.op = "fuse" /\ f.idx = e.idx
    \/ e.op = "fuse" /\ f.op = "align" /\ f.idx = e.idx + 1
    \/ e.op = "build" /\ e.idx = 0 /\ f.op = "reconstruct"
    \/ e.op = "fuse" /\ f.op = "reconstruct"

RunOrder ==
    ApiRun =>
        /\ Len(trace) >= 1 => trace[1].op = "align" /\ trace[1].idx = 0
        /\ \A j \in TraceIdx :
              /\ j > 1 => trace[j - 1].res # Raise /\ Follows(trace[j - 1], trace[j])
              \* registration before pyramid, pyramid before fusion
              /\ trace[j].op = "build" =>
                    \E h \in Returned("align") : h < j /\ trace[h].idx = trace[j].idx
              /\ trace[j].op = "fuse" =>
                    \E h \in Returned("build") : h < j /\ trace[h].idx = trace[j].idx
              \* nothing of image k+1 before image k is folded in
              /\ trace[j].idx >= 1 /\ trace[j].op # "reconstruct" =>
                    \E h \in Returned("build") \cup Returned("fuse") :
                        /\ h < j
                        /\ trace[h].idx = trace[j].idx - 1
                        /\ (trace[h].op = "build") = (trace[h].idx = 0)
              \* one reconstruction, after the last image
              /\ trace[j].op = "reconstruct" =>
                    /\ j = Len(trace)
                    /\ NumImages >= 1
                    /\ Processed = 1..NumImages
        /\ pc = "done" =>
              /\ Len(trace) >= 1
              /\ trace[Len(trace)].op = "reconstruct"
              /\ output_image = trace[Len(trace)].res
              /\ output_image[1] = "image"

\* the stored images all load, and the pyramids are deep enough to be fused
ErrorFreeInput ==
    /\ Len(image_paths) >= 1
    /\ \A k \in 1..Len(image_paths) : read_image_from_path(image_paths[k])[1] = "img"
    /\ (Len(image_paths) >= 2 => pyramid_num_levels >= 2)

\* C8: the calls of a run come in the order of the state machine, image by
\* image; the reconstruction happens once, after the last image is folded;
\* every run ends, and one that meets no error ends in Done with
\* output_image set.
C8_RunStateMachine ==
    /\ []RunOrder
    /\ (ApiRun /\ pc = "seed_align") ~> (pc = "done" \/ pc = "failed")
    /\ (ApiRun /\ pc = "seed_align" /\ ErrorFreeInput)
           ~> (pc = "done" /\ output_image[1] = "image")

C8_Witness ==
    /\ ApiRun
    /\ pc = "done"
    /\ NumImages = 3
    /\ Len(trace) = 9
    /\ output_image[1] = "image"

----------------------------------------------------------------------------
(* C10: a load that yields no pixel array aborts the run, and no output is *)
(* written.                                                                *)

\* a call of align_image_pair whose read of the target image gave no array
LoadFailed(e) ==
    /\ e.op = "align"
    /\ e.loads # <<>>
    /\ read_image_from_path(e.loads[Len(e.loads)])[1] # "img"

HasFailedLoad == ApiRun /\ \E j \in TraceIdx : LoadFailed(trace[j])

LoadFailureAborts ==
    ApiRun =>
        \A j \in TraceIdx :
            LoadFailed(trace[j]) =>
                \* at most the attempt to use the missing array follows, and it throws
                /\ Len(trace) <= j + 1
                /\ Len(trace) = j + 1 =>
                      /\ trace[j + 1].op = "build"
                      /\ trace[j + 1].idx = trace[j].idx
                      /\ trace[j + 1].res = Raise
                      /\ pc = "failed"
                /\ trace[j].res = Raise => pc = "failed"
                /\ pc \in {"failed", "seed_build", "build"}
                /\ ret \in {None, Raise}

----------------------------------------------------------------------------
(* C9: align_image_pair skips the registration exactly when reference and  *)
(* target are the same path.                                               *)

\* the file an argument of align_image_pair stands for
Source(v) == v[2]

\* C9: a call with the same path twice returns the loaded target without
\* registering; a call whose arguments stand for different files, two
\* different path strings included, loads what it was given as a path and
\* registers the target against the reference.
C9_SkipOnlyForSamePath ==
    \A j \in TraceIdx :
        trace[j].op = "align" =>
            LET e == trace[j]
            IN  /\ (IsStr(e.a) /\ e.a = e.b) =>
                      /\ ~e.reg
                      /\ e.res = read_image_from_path(Source(e.b))
                /\ (Source(e.a) # Source(e.b) /\ Decodes(Source(e.a))
                        /\ Decodes(Source(e.b))) =>
                      /\ e.reg
                      /\ e.res = <<"reg", Img(Source(e.a)), Img(Source(e.b))>>


----------------------------------------------------------------------------
(* The numba kernels of algorithms/__init__.py on concrete arrays.         *)
(*                                                                         *)
(* A 2-D array is [h, w, m] with m[y][x] its element at row y, column x    *)
(* (1-based here, 0-based in the source); a pyramid level is [h, w, px]    *)
(* with px[y][x] = <<B, G, R>>.  Pixel values are small integers.          *)

\* cv2.cvtColor(level, cv2.COLOR_BGR2GRAY): Y = 0.114 B + 0.587 G + 0.299 R,
\* kept in thousandths
Gray(level) ==
    [h |-> level.h, w |-> level.w,
     m |-> [y \in 1..level.h |-> [x \in 1..level.w |->
               114 * level.px[y][x][1] + 587 * level.px[y][x][2]
                   + 299 * level.px[y][x][3]]]]

\* a slice bound of Python/numba on an axis of length n: a negative bound
\* counts from the end, and the result is clipped to 0..n
SliceBound(v, n) ==
    IF v < 0 THEN (IF v + n < 0 THEN 0 ELSE v + n)
    ELSE IF v > n THEN n ELSE v

\* the 0-based indices selected by [start : stop] on an axis of length n
SliceIndices(start, stop, n) ==
    LET a == SliceBound(start, n)
        b == SliceBound(stop, n)
    IN  [j \in 1..(IF b > a THEN b - a ELSE 0) |-> a + j - 1]

\* array[y - k : y + k, x - k : x + k], y and x 0-based
Patch(array, y, x, k) ==
    LET rows == SliceIndices(y - k, y + k, array.h)
        cols == SliceIndices(x - k, x + k, array.w)
    IN  [h |-> Len(rows), w |-> Len(cols),
         m |-> [r \in 1..Len(rows) |-> [c \in 1..Len(cols) |->
                   array.m[rows[r] + 1][cols[c] + 1]]]]

\* __init__.py:23-36
pad_array(array, ks) ==
    LET y_pad == ks - array.h
        x_pad == ks - array.w
    IN  IF y_pad > 0 \/ x_pad > 0
        THEN [h |-> array.h + y_pad, w |-> array.w + x_pad,
              m |-> [r \in 1..(array.h + y_pad) |-> [c \in 1..(array.w + x_pad) |->
                        IF r <= array.h /\ c <= array.w THEN array.m[r][c] ELSE 0]]]
        ELSE array

RECURSIVE SeqSum(_)
SeqSum(q) == IF q = <<>> THEN 0 ELSE Head(q) + SeqSum(Tail(q))

\* all elements of a 2-D array, row after row
RECURSIVE Flat(_)
Flat(rows) == IF rows = <<>> THEN <<>> ELSE Head(rows) \o Flat(Tail(rows))

\* __init__.py:45-53.  The source returns sqrt(sum((v - mean)^2 / area)); the
\* model returns area^2 times the square of that, area * sum(v^2) - sum(v)^2,
\* which is an integer and orders any two arrays of one area as their
\* deviations do.
get_std_deviation(matrix) ==
    LET vals == Flat(matrix.m)
        kernel_area == matrix.h * matrix.w
    IN  kernel_area * SeqSum([j \in 1..Len(vals) |-> vals[j] * vals[j]])
            - SeqSum(vals) * SeqSum(vals)

\* __init__.py:63-97
compute_focusmap(pyr_level1, pyr_level2, ks) ==
    LET y_range == pyr_level1.h
        x_range == pyr_level1.w
        k == ks \div 2
    IN  [h |-> y_range, w |-> x_range,
         m |-> [yy \in 1..y_range |-> [xx \in 1..x_range |->
                   LET dev1 == get_std_deviation(
                                   pad_array(Patch(pyr_level1, yy - 1, xx - 1, k), ks))
                       dev2 == get_std_deviation(
                                   pad_array(Patch(pyr_level2, yy - 1, xx - 1, k), ks))
                   IN  IF dev2 > dev1 THEN 1 ELSE 0]]]

\* __init__.py:107-116: the first level is written in place and returned
fuse_pyramid_levels_using_focusmap(pyr_level1, pyr_level2, focusmap) ==
    [pyr_level1 EXCEPT !.px =
        [y \in 1..pyr_level1.h |-> [x \in 1..pyr_level1.w |->
            IF y <= focusmap.h /\ x <= focusmap.w /\ focusmap.m[y][x] # 0
            THEN pyr_level2.px[y][x]
            ELSE pyr_level1.px[y][x]]]]

\* cv2.resize(focusmap, (w, h), interpolation=cv2.INTER_AREA) of a uint8 map
\* whose sides are multiples of the new sides: each new element is the mean
\* of its block, rounded half up
cv2_resize(src, w, h) ==
    LET fy == src.h \div h
        fx == src.w \div w
    IN  [h |-> h, w |-> w,
         m |-> [y \in 1..h |-> [x \in 1..w |->
                   (SeqSum(Flat([r \in 1..fy |-> [c \in 1..fx |->
                        src.m[(y - 1) * fy + r][(x - 1) * fx + c]]]))
                    + ((fy * fx) \div 2)) \div (fy * fx)]]]

----------------------------------------------------------------------------
(* Algorithm.focus_fuse_pyramid_pair, __init__.py:226-262, level by level  *)

\* the colours of the test pyramids, <<B, G, R>>
Palette == {<<0, 0, 0>>, <<2, 1, 0>>}

\* level 0 is 2 x 2, every coarser level 1 x 1
LevelShape(l) == IF l = 0 THEN <<2, 2>> ELSE <<1, 1>>

LevelsOfShape(sh) ==
    {[h |-> sh[1], w |-> sh[2], px |-> m] : m \in [1..sh[1] -> [1..sh[2] -> Palette]]}

\* the test pyramids of depth n: any level 0, and one colour shared by the
\* coarser levels
PyramidsOfDepth(n) ==
    {[l \in 1..n |-> IF l = 1 THEN top ELSE coarse] :
        top \in LevelsOfShape(LevelShape(0)), coarse \in LevelsOfShape(LevelShape(1))}

\* the call focus_fuse_pyramid_pair(pyr1, pyr2, kernel_size) has been made
InitFuse ==
    /\ image_paths = <<>>
    /\ output_image = None
    /\ pyramid_num_levels = DefaultPyramidNumLevels
    /\ useGpu = FALSE
    /\ mode = "none"
    /\ pc = "idle"
    /\ i = 0
    /\ aligned_images = <<>>
    /\ im0 = Unbound
    /\ im1 = Unbound
    /\ fused_pyr = Unbound
    /\ new_pyr = Unbound
    /\ image_archive_names = <<>>
    /\ output_pyramid = Unbound
    /\ new_laplacian_pyramid = Unbound
    /\ ret = None
    /\ trace = <<>>
    /\ signals = <<>>
    /\ stdout = <<>>
    /\ \E n \in 1..MaxLevels :
          /\ pyr1 \in PyramidsOfDepth(n)
          /\ pyr2 \in PyramidsOfDepth(n)
    /\ same_object \in BOOLEAN
    /\ same_object => pyr1 = pyr2
    /\ pyr1_before = pyr1
    /\ kernel_size \in 1..MaxKernel
    /\ pyramid_level = 0
    /\ current_focusmap = NoneMap
    /\ new_pyr_levels = <<>>
    /\ fpc = "map"
    /\ ops = <<>>

threshold_index == Len(pyr2) - 1

Op(kind, map, from) ==
    [level |-> pyramid_level, kind |-> kind, map |-> map, from |-> from]

\* __init__.py:240-246
ComputeFocusmapStep ==
    /\ fpc = "map"
    /\ pyramid_level < threshold_index
    /\ LET fm == compute_focusmap(Gray(pyr1[pyramid_level + 1]),
                                  Gray(pyr2[pyramid_level + 1]), kernel_size)
       IN  /\ current_focusmap' = fm
           /\ ops' = Append(ops, Op("compute", fm, NoneMap))
    /\ fpc' = "fuse"
    /\ UNCHANGED <<pyr1, pyr2, kernel_size, pyramid_level, new_pyr_levels,
                   same_object, pyr1_before, runVars>>

\* the coarsest level given a freshly computed map like every other level
ResizeFocusmapStep_Recomputes ==
    /\ fpc = "map"
    /\ ~(pyramid_level < threshold_index)
    /\ LET fm == compute_focusmap(Gray(pyr1[pyramid_level + 1]),
                                  Gray(pyr2[pyramid_level + 1]), kernel_size)
       IN  /\ current_focusmap' = fm
           /\ ops' = Append(ops, Op("compute", fm, NoneMap))
    /\ fpc' = "fuse"
    /\ UNCHANGED <<pyr1, pyr2, kernel_size, pyramid_level, new_pyr_levels,
                   same_object, pyr1_before, runVars>>

\* __init__.py:247-253: cv2.resize rejects None, the value current_focusmap
\* still has when the pyramid has one level only
ResizeFocusmapStep ==
    /\ fpc = "map"
    /\ ~(pyramid_level < threshold_index)
    /\ IF current_focusmap = NoneMap
       THEN /\ fpc' = "failed"
            /\ UNCHANGED <<current_focusmap, ops>>
       ELSE LET s == pyr2[pyramid_level + 1]
                fm == cv2_resize(current_focusmap, s.w, s.h)
            IN  /\ current_focusmap' = fm
                /\ ops' = Append(ops, Op("resize", fm, current_focusmap))
                /\ fpc' = "fuse"
    /\ UNCHANGED <<pyr1, pyr2, kernel_size, pyramid_level, new_pyr_levels,
                   same_object, pyr1_before, runVars>>

\* FuseLevelStep writing the fused level into the buffer of the second
\* pyramid and leaving the first one alone
FuseLevelStep_WritesSecond ==
    /\ fpc = "fuse"
    /\ LET new_pyr_level == fuse_pyramid_levels_using_focusmap(
                                pyr1[pyramid_level + 1], pyr2[pyramid_level + 1],
                                current_focusmap)
       IN  /\ pyr2' = [pyr2 EXCEPT ![pyramid_level + 1] = new_pyr_level]
           /\ pyr1' = IF same_object
                      THEN [pyr1 EXCEPT ![pyramid_level + 1] = new_pyr_level]
                      ELSE pyr1
    /\ new_pyr_levels' = Append(new_pyr_levels, pyramid_level)
    /\ pyramid_level' = pyramid_level + 1
    /\ fpc' = IF pyramid_level + 1 < Len(pyr2) THEN "map" ELSE "done"
    /\ UNCHANGED <<kernel_size, current_focusmap, same_object, pyr1_before, ops,
                   runVars>>

\* __init__.py:255-262: the level of pyr1 is overwritten and that same buffer
\* is appended to new_pyr (kept here as the index of the level in pyr1); after
\* the last level new_pyr is returned
FuseLevelStep ==
    /\ fpc = "fuse"
    /\ LET new_pyr_level == fuse_pyramid_levels_using_focusmap(
                                pyr1[pyramid_level + 1], pyr2[pyramid_level + 1],
                                current_focusmap)
       IN  /\ pyr1' = [pyr1 EXCEPT ![pyramid_level + 1] = new_pyr_level]
           /\ pyr2' = IF same_object
                      THEN [pyr2 EXCEPT ![pyramid_level + 1] = new_pyr_level]
                      ELSE pyr2
    /\ new_pyr_levels' = Append(new_pyr_levels, pyramid_level)
    /\ pyramid_level' = pyramid_level + 1
    /\ fpc' = IF pyramid_level + 1 < Len(pyr2) THEN "map" ELSE "done"
    /\ UNCHANGED <<kernel_size, current_focusmap, same_object, pyr1_before, ops,
                   runVars>>

\* the pyramid the finished call returns
ReturnedPyramid == [l \in 1..Len(new_pyr_levels) |-> pyr1[new_pyr_levels[l] + 1]]

NextFuse ==
    \/ ComputeFocusmapStep
    \/ ResizeFocusmapStep
    \/ FuseLevelStep

SpecFuse == InitFuse /\ [][NextFuse]_vars


----------------------------------------------------------------------------
(* C4: levels are fused finest to coarsest; every level but the last gets  *)
(* a freshly computed focus map, the last one the resized map of the level *)
(* before it.                                                              *)

\* the levels of the second argument when the call was made
pyr2_before == IF same_object THEN pyr1_before ELSE pyr2

----------------------------------------------------------------------------
(* C5: compute_focusmap is the reference selector at every pixel.          *)

\* element (y, x), 1-based, of an array read as zero outside its bounds
ZeroPadded(array, y, x) ==
    IF y >= 1 /\ y <= array.h /\ x >= 1 /\ x <= array.w THEN array.m[y][x] ELSE 0

\* the ks-by-ks neighbourhood centred on (y, x): rows y - ks/2 .. y - ks/2 +
\* ks - 1 and the same columns, zero outside the array
Neighbourhood(array, y, x, ks) ==
    LET lo == ks \div 2
    IN  Flat([r \in 1..ks |-> [c \in 1..ks |->
                 ZeroPadded(array, y - lo + r - 1, x - lo + c - 1)]])

\* ks^4 times the population variance of the neighbourhood
NeighbourhoodDeviation(array, y, x, ks) ==
    LET vals == Neighbourhood(array, y, x, ks)
    IN  (ks * ks) * SeqSum([j \in 1..Len(vals) |-> vals[j] * vals[j]])
            - SeqSum(vals) * SeqSum(vals)

ReferenceSelector(A, B, ks) ==
    [h |-> A.h, w |-> A.w,
     m |-> [y \in 1..A.h |-> [x \in 1..A.w |->
               IF NeighbourhoodDeviation(B, y, x, ks) > NeighbourhoodDeviation(A, y, x, ks)
               THEN 1 ELSE 0]]]

\* C5: every map compute_focusmap returns is 1 exactly where the zero-padded
\* neighbourhood of the second input deviates more than that of the first.
C5_FocusmapIsReferenceSelector ==
    \A j \in 1..Len(ops) :
        ops[j].kind = "compute" =>
            ops[j].map = ReferenceSelector(Gray(pyr1_before[j]), Gray(pyr2_before[j]),
                                           kernel_size)

----------------------------------------------------------------------------
(* C6: fusing a pyramid with itself gives that pyramid back.               *)

\* C6: when both arguments hold the same levels the call completes and the
\* pyramid it returns has the levels of the argument.
C6_FusionIdentity ==
    pyr1_before = pyr2_before =>
        /\ fpc # "failed"
        /\ fpc = "done" => ReturnedPyramid = pyr1_before

----------------------------------------------------------------------------
(* C11: the pyramid depth against the size of the image.                   *)

\* The smaller of height and width of the array the decoder returns for
\* each file of the modelled disk.
MinDimension(p) ==
    CASE p = 2 -> 64
      [] OTHER -> 256

\* the smaller dimension of an image value: registration returns an array
\* of the shape of the image it shifted
RECURSIVE ImageMinDimension(_)
ImageMinDimension(v) ==
    IF v[1] = "img" THEN MinDimension(v[2]) ELSE ImageMinDimension(v[3])

\* Halving (rounded down) d for the levels 0, 1, 2, ...: the number of
\* levels that are not empty.
RECURSIVE SupportedDepth(_)
SupportedDepth(d) == IF d = 0 THEN 0 ELSE 1 + SupportedDepth(d \div 2)

\* calls of generate_laplacian_pyramid that were handed a pixel array
BuildCalls == {j \in TraceIdx : trace[j].op = "build" /\ trace[j].a # None}

\* C11: no call of generate_laplacian_pyramid in a run of the orchestrator
\* is made with a depth above the one the smallest dimension of its image
\* supports; such a depth was clamped or the run failed before the call.
C11_DepthValidatedBeforeBuild ==
    ApiRun =>
        \A j \in BuildCalls :
            pyramid_num_levels <= SupportedDepth(ImageMinDimension(trace[j].a))

----------------------------------------------------------------------------
(* C12: the outcomes of read_image_from_path.                              *)

\* the paths read_image_from_path was called with by the calls of the trace
PathsRead ==
    UNION {{trace[j].loads[k] : k \in 1..Len(trace[j].loads)} : j \in TraceIdx}

\* C12: for every path it is called with, read_image_from_path either
\* returns a pixel array or throws; it never returns without an array.
C12_ReadReturnsArrayOrFails ==
    \A p \in PathsRead :
        \/ read_image_from_path(p) = Raise
        \/ read_image_from_path(p) = Img(p)

----------------------------------------------------------------------------
(* C13: what focus_fuse_pyramid_pair writes.                               *)

\* the levels the loop has gone through
FusedLevels == 1..Len(new_pyr_levels)

\* level l of pyr1 holds, for every pixel and all its channels, the value
\* pyr1 had at the call where the focus map of the level is 0 and the value
\* of pyr2 elsewhere
HoldsFusedValues(l) ==
    /\ pyr1[l].h = pyr1_before[l].h
    /\ pyr1[l].w = pyr1_before[l].w
    /\ \A y \in 1..pyr1[l].h, x \in 1..pyr1[l].w :
          pyr1[l].px[y][x] = IF ops[l].map.m[y][x] = 0
                             THEN pyr1_before[l].px[y][x]
                             ELSE pyr2[l].px[y][x]

WritesFirstArgumentInPlace ==
    \A l \in 1..Len(pyr1) :
        IF l \in FusedLevels
        THEN /\ new_pyr_levels[l] = l - 1
             /\ ReturnedPyramid[l] = pyr1[l]
             /\ HoldsFusedValues(l)
        ELSE pyr1[l] = pyr1_before[l]

\* C13: no step of focus_fuse_pyramid_pair changes a level of pyr2; level l
\* of the pyramid being returned is the buffer of level l of pyr1, which
\* holds the fused values, and the levels not yet reached are as they were.
C13_WritesFirstArgumentInPlace ==
    /\ [][pyr2' = pyr2]_vars
    /\ []WritesFirstArgumentInPlace

\* a finished call on two different pyramids that took pixels from both
C13_Witness ==
    /\ fpc = "done"
    /\ ~same_object
    /\ Len(pyr1) >= 2
    /\ pyr1 # pyr1_before
    /\ pyr1 # pyr2
    /\ WritesFirstArgumentInPlace

====
